---- MODULE Spec2Model ----
(***************************************************************************)
(* Bloomingdale's scraper: the item pipeline (pipelines.py), the listing   *)
(* spider (spiders/bloomingdales.py) and the image-backfill spider         *)
(* (spiders/bloomingdales_image_scraper.py), modelled as state machines.   *)
(*                                                                         *)
(* The sources carry unresolved merge markers; the HEAD side is modelled.  *)
(* The framework's own feed exporter (FEEDS in custom_settings) is not     *)
(* part of the model: the persisted files change only through the          *)
(* pipeline's close_spider and the spider's spider_closed.                 *)
(***************************************************************************)
EXTENDS Integers, Sequences, FiniteSets, TLC

VARIABLES
    items,          \* BloomingdalesExcelPipeline.items
    csvFile,        \* data/bloomingdales_products.csv
    xlsxFile,       \* data/bloomingdales_products.xlsx
    phase,          \* position of the run: "crawling", "pipeline_closed", "closed"
    startCsv,       \* history: csvFile when the current run started
    startXlsx,      \* history: xlsxFile when the current run started
    inRunTable,     \* history: df after line 31 of the last close_spider
    rootPending,    \* the request for start_urls[0] is waiting
    pending,        \* the requests for brand pages that are waiting
    seen,           \* the URLs the scheduler's duplicate filter has seen
    all_scraped_items,  \* BloomingdalesSpider.all_scraped_items
    issued,         \* history: the follow-up requests parse_designer_brand yielded
    last,           \* history: the last run of parse_designer_brand
    launch,         \* how the image scraper was started: "none", "script", "scrapy"
    bpc,            \* position of the image scraper's current pass
    passes,         \* history: the number of BloomingdalesImageScraper objects created
    self_df,        \* BloomingdalesImageScraper.df
    products_to_scrape,  \* BloomingdalesImageScraper.products_to_scrape, as row indexes
    requests,       \* the requests of the pass that are waiting, as row indexes
    errored,        \* history: the row indexes handle_error was called for in the pass
    backupCsv,      \* data/backup/bloomingdales_products_backup.csv
    backupXlsx,     \* data/backup/bloomingdales_products_backup.xlsx
    updatedCsv,     \* data/updated/bloomingdales_products_updated.csv
    updatedXlsx,    \* data/updated/bloomingdales_products_updated.xlsx
    call            \* history: the last call of a normalizer, its arguments and result

pipelineVars == <<items, csvFile, xlsxFile, phase, startCsv, startXlsx, inRunTable>>

crawlVars == <<rootPending, pending, seen, all_scraped_items, issued, last>>

backfillVars == <<launch, bpc, passes, self_df, products_to_scrape, requests, errored,
                  backupCsv, backupXlsx, updatedCsv, updatedXlsx>>

vars == <<items, csvFile, xlsxFile, phase, startCsv, startXlsx, inRunTable,
          rootPending, pending, seen, all_scraped_items, issued, last,
          launch, bpc, passes, self_df, products_to_scrape, requests, errored,
          backupCsv, backupXlsx, updatedCsv, updatedXlsx, call>>

----------------------------------------------------------------------------
(* Bounds of the model. *)

\* the most items one run passes to process_item
MaxItems == 2

\* the most product elements a listing page holds
MaxFrags == 2

\* the most rows of the dataset the image scraper starts on
MaxRows == 2

\* the most image scraper objects one invocation is followed through
MaxPasses == 4

----------------------------------------------------------------------------
(* Values. A Python str is a sequence of tokens: single characters, and    *)
(* the separators the code searches for ("?ID=", "&", " - ", ...) as one   *)
(* token each. Python's None is a record with some = FALSE, so that an     *)
(* absent value and a present one are always comparable; the empty str is  *)
(* SomeStr(<<>>).                                                          *)

NoneStr == [some |-> FALSE, val |-> <<>>]
SomeStr(s) == [some |-> TRUE, val |-> s]
NoneNum == [some |-> FALSE, val |-> 0]
SomeNum(n) == [some |-> TRUE, val |-> n]

\* product codes as they appear after "?ID=" in product URLs
CodeTexts == {<<"1">>, <<"0", "1">>, <<"A">>}

\* full_price values, in hundredths
Prices == {9000, 10000}

Digits == {"0", "1", "2", "3", "4", "5", "6", "7", "8", "9"}

\* the text parses as an integer
IsIntText(s) == s # <<>> /\ \A i \in 1..Len(s) : s[i] \in Digits

RECURSIVE IntText(_)
(* The decimal text an integer is written back with: the text without its  *)
(* leading zeros ("01" is 1).                                              *)
IntText(s) == IF Len(s) > 1 /\ s[1] = "0" THEN IntText(Tail(s)) ELSE s

(* A cell of the product_code column in memory: a Python str or int.       *)
StrCell(s) == [t |-> "str", v |-> s]
IntCell(s) == [t |-> "int", v |-> IntText(s)]

NoFile == [exists |-> FALSE, rows |-> <<>>]
File(rows) == [exists |-> TRUE, rows |-> rows]

\* no normalizer was called yet
NoCall ==
    [fn |-> "none", price_str |-> NoneStr, image |-> NoneStr, selectors |-> <<>>,
     price |-> NoneNum, image_url |-> NoneStr, tried |-> 0]

----------------------------------------------------------------------------
(* str operations the spider uses. *)

\* Python truthiness of an optional str: None and "" are falsy
Truthy(x) == x.some /\ x.val # <<>>

\* the index of the first occurrence of token sep in s, or 0
IndexOf(s, sep) ==
    IF \E i \in 1..Len(s) : s[i] = sep
    THEN CHOOSE i \in 1..Len(s) : s[i] = sep /\ \A j \in 1..(i - 1) : s[j] # sep
    ELSE 0

RECURSIVE Split(_, _)
\* s.split(sep): the pieces of s between the occurrences of sep
Split(s, sep) ==
    LET i == IndexOf(s, sep)
    IN IF i = 0 THEN <<s>>
       ELSE <<SubSeq(s, 1, i - 1)>> \o Split(SubSeq(s, i + 1, Len(s)), sep)

\* s.replace(tok, "")
Remove(s, tok) == SelectSeq(s, LAMBDA c : c # tok)

RECURSIVE LStrip(_)
LStrip(s) == IF s # <<>> /\ s[1] = " " THEN LStrip(Tail(s)) ELSE s

RECURSIVE RStrip(_)
RStrip(s) == IF s # <<>> /\ s[Len(s)] = " " THEN RStrip(SubSeq(s, 1, Len(s) - 1)) ELSE s

\* s.strip()
Strip(s) == RStrip(LStrip(s))

DigitVal ==
    ("0" :> 0) @@ ("1" :> 1) @@ ("2" :> 2) @@ ("3" :> 3) @@ ("4" :> 4) @@
    ("5" :> 5) @@ ("6" :> 6) @@ ("7" :> 7) @@ ("8" :> 8) @@ ("9" :> 9)

AllDigits(s) == \A i \in 1..Len(s) : s[i] \in Digits

RECURSIVE NatOf(_)
\* the number a sequence of digits writes
NatOf(s) == IF s = <<>> THEN 0 ELSE NatOf(SubSeq(s, 1, Len(s) - 1)) * 10 + DigitVal[s[Len(s)]]

\* the hundredths the decimals frac write; a third decimal is cut
Cents(frac) ==
    IF Len(frac) = 0 THEN 0
    ELSE IF Len(frac) = 1 THEN DigitVal[frac[1]] * 10
    ELSE DigitVal[frac[1]] * 10 + DigitVal[frac[2]]

\* the float written by the digits whole, a dot and the digits frac
Decimal(whole, frac) ==
    IF AllDigits(whole) /\ AllDigits(frac) /\ Len(whole) + Len(frac) > 0
    THEN [ok |-> TRUE, val |-> NatOf(whole) * 100 + Cents(frac)]
    ELSE [ok |-> FALSE, val |-> 0]

\* the float written by body, whose first dot is at index dot (0: none)
DecimalAt(body, dot) ==
    IF dot = 0 THEN Decimal(body, <<>>)
    ELSE Decimal(SubSeq(body, 1, dot - 1), SubSeq(body, dot + 1, Len(body)))

Negated(f) == IF f.ok THEN [ok |-> TRUE, val |-> 0 - f.val] ELSE f

(* float(s), for the decimal notations digits, digits.digits, digits. and   *)
(* .digits with an optional sign; anything else is a ValueError (ok is      *)
(* FALSE). The value is kept in hundredths.                                 *)
ParseFloat(s) ==
    IF s # <<>> /\ s[1] = "-" THEN Negated(DecimalAt(Tail(s), IndexOf(Tail(s), ".")))
    ELSE IF s # <<>> /\ s[1] = "+" THEN DecimalAt(Tail(s), IndexOf(Tail(s), "."))
    ELSE DecimalAt(s, IndexOf(s, "."))

\* the float, or None where float() raised ValueError
FloatOrNone(f) == IF f.ok THEN SomeNum(f.val) ELSE NoneNum

\* price_str.replace("$", "").replace(",", "").strip()
CleanPrice(price_str) == Strip(Remove(Remove(price_str, "$"), ","))

\* the last piece of a split
LastOf(parts) == parts[Len(parts)]

\* a mutation of convert_price_to_float: the upper bound of a range is taken
convert_price_to_float_upper(price_str) ==
    IF ~Truthy(price_str) THEN NoneNum
    ELSE FloatOrNone(ParseFloat(Strip(LastOf(Split(CleanPrice(price_str.val), "-")))))

(* BloomingdalesSpider.convert_price_to_float; a ValueError of float() is   *)
(* caught and None returned.                                                *)
convert_price_to_float(price_str) ==
    IF ~Truthy(price_str) THEN NoneNum
    ELSE FloatOrNone(ParseFloat(Strip(Split(CleanPrice(price_str.val), "-")[1])))

(* BloomingdalesSpider.get_price: <<full_price, discounted_price>> *)
get_price(product) ==
    IF Truthy(product.discount_text)
    THEN <<convert_price_to_float(product.strike_text),
           convert_price_to_float(product.sale_text)>>
    ELSE <<convert_price_to_float(product.reg_text), NoneNum>>

\* the indexes of token tok in s
At(s, tok) == {i \in 1..Len(s) : s[i] = tok}

\* x is digits, optionally a dot, optionally more digits; its first dot is at d
IsDecimalAt(x, d) ==
    IF d = 0 THEN x # <<>> /\ AllDigits(x)
    ELSE /\ d > 1
         /\ AllDigits(SubSeq(x, 1, d - 1))
         /\ AllDigits(SubSeq(x, d + 1, Len(x)))

\* the places <<i, j, k>> of the three words of the pattern where it matches
RatingMatches(s) ==
    {m \in At(s, "Rated ") \X At(s, " stars with ") \X At(s, " reviews") :
        /\ m[1] < m[2]
        /\ m[2] + 1 < m[3]
        /\ IsDecimalAt(SubSeq(s, m[1] + 1, m[2] - 1),
                       IndexOf(SubSeq(s, m[1] + 1, m[2] - 1), "."))
        /\ AllDigits(SubSeq(s, m[2] + 1, m[3] - 1))}

\* float(match.group(1)), int(match.group(2))
RatingGroups(s, m) ==
    <<SomeNum(ParseFloat(SubSeq(s, m[1] + 1, m[2] - 1)).val),
      SomeNum(NatOf(SubSeq(s, m[2] + 1, m[3] - 1)))>>

\* pattern.search: the leftmost match
FirstMatch(hits) == CHOOSE h \in hits : \A g \in hits : h[1] <= g[1]

(* BloomingdalesSpider.extract_rating_and_reviews: the first match in the  *)
(* text of the pattern Rated <decimal> stars with <digits> reviews, as      *)
(* <<stars, reviews>>. The words of the pattern are tokens; a decimal is    *)
(* digits, optionally a dot, optionally more digits.                        *)
extract_rating_and_reviews(rating_text) ==
    IF RatingMatches(rating_text) = {} THEN <<NoneNum, NoneNum>>
    ELSE RatingGroups(rating_text, FirstMatch(RatingMatches(rating_text)))

\* a mutation of FirstTruthy: the loop has no break, the last selector's result is returned
FirstTruthyNoBreak(results, i, image_url) ==
    IF i > Len(results) THEN image_url ELSE results[Len(results)]

RECURSIVE FirstTruthy(_, _, _)
\* the loop of extract_image_url from selector i on; image_url is the value assigned so far
FirstTruthy(results, i, image_url) ==
    IF i > Len(results) THEN image_url
    ELSE IF Truthy(results[i]) THEN results[i]     \* break
    ELSE FirstTruthy(results, i + 1, results[i])

(* BloomingdalesSpider.extract_image_url: the selectors are run against the *)
(* response, not the product; response.selectors[i] is what selector i      *)
(* returns there.                                                           *)
extract_image_url(product, response) == FirstTruthy(response.selectors, 1, NoneStr)

----------------------------------------------------------------------------
(* pandas, as far as the pipeline uses it. A DataFrame is a sequence of    *)
(* rows; a row carries the product_code cell and, of the other columns,    *)
(* full_price, imageurl and itemurl (the remaining columns travel the same *)
(* way as these).                                                          *)

RECURSIVE Pick(_, _, _)
\* the rows of df whose index is in keepIdx, in order, from index i on
Pick(df, keepIdx, i) ==
    IF i > Len(df) THEN <<>>
    ELSE (IF i \in keepIdx THEN <<df[i]>> ELSE <<>>) \o Pick(df, keepIdx, i + 1)

\* a mutation of DropDuplicates: nothing is dropped
DropDuplicatesNothing(df, keep) == df

\* a mutation of DropDuplicates: the other occurrence is kept
DropDuplicatesFlipped(df, keep) ==
    LET n == Len(df)
        kept == {i \in 1..n :
                    IF keep = "first"
                    THEN \A j \in (i + 1)..n : df[j].product_code # df[i].product_code
                    ELSE \A j \in 1..(i - 1) : df[j].product_code # df[i].product_code}
    IN Pick(df, kept, 1)

(* df.drop_duplicates(subset='product_code', keep=keep). Cells are compared *)
(* as Python objects: the int 1 and the str "1" are different values.       *)
DropDuplicates(df, keep) ==
    LET n == Len(df)
        kept == {i \in 1..n :
                    IF keep = "first"
                    THEN \A j \in 1..(i - 1) : df[j].product_code # df[i].product_code
                    ELSE \A j \in (i + 1)..n : df[j].product_code # df[i].product_code}
    IN Pick(df, kept, 1)

(* pd.DataFrame(self.items)[required_columns]: the product_code of an item  *)
(* is the str cut out of the product URL.                                   *)
DataFrame(its) ==
    [i \in 1..Len(its) |->
        [product_code |-> StrCell(its[i].product_code),
         full_price |-> its[i].full_price,
         imageurl |-> its[i].imageurl,
         itemurl |-> its[i].itemurl]]

\* a mutation of ToCsv: a frame without rows is not written at all
ToCsvSkipsEmpty(df) ==
    IF df = <<>> THEN NoFile
    ELSE File([i \in 1..Len(df) |->
            [product_code |-> df[i].product_code.v,
             full_price |-> df[i].full_price,
             imageurl |-> df[i].imageurl,
             itemurl |-> df[i].itemurl]])

(* df.to_csv(path, index=False): every cell becomes text; a str is written  *)
(* as it is and an int in decimal.                                          *)
ToCsv(df) ==
    File([i \in 1..Len(df) |->
        [product_code |-> df[i].product_code.v,
         full_price |-> df[i].full_price,
         imageurl |-> df[i].imageurl,
         itemurl |-> df[i].itemurl]])

(* An empty cell of a file, written for None or for "", is read back as NaN, *)
(* which is modelled as None (isnull() holds of it).                         *)
NaNIfEmpty(x) == IF Truthy(x) THEN x ELSE NoneStr

\* a mutation of ReadCsv: the file is read as holding no rows
ReadCsvNothing(file) == <<>>

(* pd.read_csv(path): the type of a column is inferred from all its cells:  *)
(* when every product_code parses as an integer the column is int64 (and    *)
(* "01" is 1), otherwise every cell stays the str of the file.              *)
ReadCsv(file) ==
    LET rows == file.rows
        numeric == \A i \in 1..Len(rows) : IsIntText(rows[i].product_code)
    IN [i \in 1..Len(rows) |->
        [product_code |-> IF numeric THEN IntCell(rows[i].product_code)
                                     ELSE StrCell(rows[i].product_code),
         full_price |-> rows[i].full_price,
         imageurl |-> NaNIfEmpty(rows[i].imageurl),
         itemurl |-> rows[i].itemurl]]

(* df.to_excel(path, index=False): a cell keeps its type (number or text).  *)
ToExcel(df) == File(df)

(* pd.read_excel(path): number cells are ints; a column that holds text     *)
(* cells is converted to int64 only when every cell parses as an integer.   *)
ReadExcel(file) ==
    LET rows == file.rows
        numeric == \A i \in 1..Len(rows) :
                      \/ rows[i].product_code.t = "int"
                      \/ IsIntText(rows[i].product_code.v)
    IN [i \in 1..Len(rows) |->
        [rows[i] EXCEPT !.product_code =
                            IF numeric /\ @.t = "str" THEN IntCell(@.v) ELSE @,
                        !.imageurl = NaNIfEmpty(@)]]

----------------------------------------------------------------------------
(* BloomingdalesExcelPipeline *)

\* the record parse_designer_brand would build for a product with this code and price
MkItem(code, price) ==
    [brand |-> "A",
     product_code |-> code,
     full_price |-> SomeNum(price),
     price |-> NoneNum,
     category1_code |-> NoneNum,
     category2_code |-> NoneNum,
     category3_code |-> FALSE,
     title |-> SomeStr(<<"T">>),
     imageurl |-> NoneStr,
     itemurl |-> <<"https://www.bloomingdales.com", "/p", "?ID=", code>>]

ItemInputs == {MkItem(c, p) : c \in CodeTexts, p \in Prices}

\* close_spider, lines 16-31: the in-run table
InRunTable(its) == DropDuplicates(DataFrame(its), "first")

\* close_spider, lines 37-39: the merge with the existing CSV
MergeCsv(csv, df) ==
    IF csv.exists THEN DropDuplicates(ReadCsv(csv) \o df, "last") ELSE df

\* close_spider, lines 41-43: the merge with the existing Excel file
MergeExcel(xlsx, df) ==
    IF xlsx.exists THEN DropDuplicates(ReadExcel(xlsx) \o df, "last") ELSE df

\* a mutation of CloseSpiderDf: the run's table is written without the merges
CloseSpiderDfNoMerge(its, csv, xlsx) == InRunTable(its)

\* the df close_spider writes
CloseSpiderDf(its, csv, xlsx) == MergeExcel(xlsx, MergeCsv(csv, InRunTable(its)))

\* a mutation of SpiderClosedDf: the CSV is written back as read
SpiderClosedDfNoDedup(csv) == ReadCsv(csv)

\* the df spider_closed writes
SpiderClosedDf(csv) == DropDuplicates(ReadCsv(csv), "first")

process_item(item) ==
    /\ phase = "crawling"
    /\ Len(items) < MaxItems
    /\ items' = Append(items, item)
    /\ UNCHANGED <<csvFile, xlsxFile, phase, startCsv, startXlsx, inRunTable>>
    /\ UNCHANGED crawlVars
    /\ UNCHANGED backfillVars
    /\ UNCHANGED call

close_spider ==
    /\ phase = "crawling"
    /\ inRunTable' = InRunTable(items)
    /\ LET df == CloseSpiderDf(items, csvFile, xlsxFile)
       IN /\ csvFile' = ToCsv(df)
          /\ xlsxFile' = ToExcel(df)
    /\ phase' = "pipeline_closed"
    /\ UNCHANGED <<items, startCsv, startXlsx>>
    /\ UNCHANGED crawlVars
    /\ UNCHANGED backfillVars
    /\ UNCHANGED call

(* BloomingdalesSpider.spider_closed: runs on the spider_closed signal,     *)
(* which the engine sends after the pipelines were closed.                  *)
spider_closed ==
    /\ phase = "pipeline_closed"
    /\ IF csvFile.exists
       THEN LET df == SpiderClosedDf(csvFile)
            IN /\ csvFile' = ToCsv(df)
               /\ xlsxFile' = ToExcel(df)
       ELSE UNCHANGED <<csvFile, xlsxFile>>   \* read_csv raises: nothing is written
    /\ phase' = "closed"
    /\ UNCHANGED <<items, startCsv, startXlsx, inRunTable>>
    /\ UNCHANGED crawlVars
    /\ UNCHANGED backfillVars
    /\ UNCHANGED call

(* The next run of the crawler: a new process, a new pipeline object, the   *)
(* files as the last run left them.                                         *)
NewRun ==
    /\ phase = "closed"
    /\ items' = <<>>
    /\ phase' = "crawling"
    /\ startCsv' = csvFile
    /\ startXlsx' = xlsxFile
    /\ inRunTable' = <<>>
    /\ UNCHANGED <<csvFile, xlsxFile>>
    /\ UNCHANGED crawlVars
    /\ UNCHANGED backfillVars
    /\ UNCHANGED call

InitPipeline ==
    /\ items = <<>>
    /\ csvFile = NoFile
    /\ xlsxFile = NoFile
    /\ phase = "crawling"
    /\ startCsv = NoFile
    /\ startXlsx = NoFile
    /\ inRunTable = <<>>

NextPipeline ==
    \/ \E item \in ItemInputs : process_item(item)
    \/ close_spider
    \/ spider_closed
    \/ NewRun

(* close_spider when the write of line 46 fails part-way (the disk is full, *)
(* the process is interrupted): to_csv opens the file of the dataset itself *)
(* for writing, so the file holds the header and the k rows written so far; *)
(* the exception leaves close_spider, line 48 is not reached, and the       *)
(* engine logs it and goes on to the spider_closed signal.                  *)
close_spider_interrupted(k) ==
    /\ phase = "crawling"
    /\ k < Len(CloseSpiderDf(items, csvFile, xlsxFile))
    /\ inRunTable' = InRunTable(items)
    /\ csvFile' = File(SubSeq(ToCsv(CloseSpiderDf(items, csvFile, xlsxFile)).rows, 1, k))
    /\ phase' = "pipeline_closed"
    /\ UNCHANGED <<xlsxFile, items, startCsv, startXlsx>>
    /\ UNCHANGED crawlVars
    /\ UNCHANGED backfillVars
    /\ UNCHANGED call

\* the runs of the pipeline when a write can fail
NextWriteFailure ==
    \/ \E item \in ItemInputs : process_item(item)
    \/ close_spider
    \/ \E k \in 0..(2 * MaxItems) : close_spider_interrupted(k)
    \/ spider_closed
    \/ NewRun

----------------------------------------------------------------------------
(* BloomingdalesSpider *)

\* the ceiling of the pagination: "if current_page < 7"
MaxPage == 7

\* the number of selectors extract_image_url tries
NumSelectors == 14

Host == "https://www.bloomingdales.com"

\* response.urljoin / response.follow: a relative URL is put under the host
UrlJoin(u) == IF u # <<>> /\ u[1] = Host THEN u ELSE <<Host>> \o u

RECURSIVE SubPageindex(_, _)
(* re.sub(r'(buy/[^?]+)(\?)', rf'\1/Pageindex/{next_page}\2', url): before   *)
(* the first "?" that follows "buy/" and at least one more character, the   *)
(* segment /Pageindex/<next_page> is inserted, whatever the path already    *)
(* holds; a URL without such a place is returned as it is.                  *)
SubPageindex(url, next_page) ==
    LET starts == {i \in 1..Len(url) :
                      /\ url[i] = "buy/"
                      /\ i < Len(url)
                      /\ url[i + 1] # "?"
                      /\ \E j \in (i + 2)..Len(url) : url[j] = "?"}
    IN IF starts = {} THEN url
       ELSE LET i == CHOOSE a \in starts : \A b \in starts : a <= b
                j == CHOOSE a \in (i + 2)..Len(url) :
                        url[a] = "?" /\ \A b \in (i + 2)..(a - 1) : url[b] # "?"
            IN SubSeq(url, 1, j - 1) \o <<"/Pageindex/", ToString(next_page), "?">>
                 \o SubPageindex(SubSeq(url, j + 1, Len(url)), next_page)

\* response.meta.get('current_page', 1)
CurrentPage(meta) == IF meta.some THEN meta.val ELSE 1

\* line 154 raises IndexError: the link holds no "?ID="
RaisesIndexError(product) ==
    Truthy(product.url) /\ Len(Split(product.url.val, "?ID=")) < 2

\* line 154: product_url.split("?ID=")[1].split("&")[0]
ProductCode(product) == Split(Split(product.url.val, "?ID=")[2], "&")[1]

\* lines 117 and 135-136: the image of a product element
ListingImage(product, response) ==
    IF Truthy(product.image) THEN product.image
                             ELSE extract_image_url(product, response)

\* lines 157-180: the item
Item(product, brand_name, rated, image_url, prices) ==
    [brand |-> brand_name,
     product_code |-> ProductCode(product),
     full_price |-> prices[1],
     price |-> prices[2],
     category1_code |-> rated[1],
     category2_code |-> rated[2],
     category3_code |-> (Truthy(product.eyebrow)
                           /\ IndexOf(product.eyebrow.val, "Best Seller") # 0),
     title |-> IF Truthy(product.name) THEN SomeStr(Strip(product.name.val))
                                        ELSE NoneStr,
     imageurl |-> image_url,
     itemurl |-> UrlJoin(product.url.val)]

\* lines 107-180: the item built for one product element that has a link
BuildItem(product, response, brand_name) ==
    Item(product, brand_name,
         IF Truthy(product.rating) THEN extract_rating_and_reviews(product.rating.val)
                                   ELSE <<NoneNum, NoneNum>>,
         ListingImage(product, response),
         get_price(product))

\* a mutation of ProcessProduct: a link without "?ID=" gives no item and no error
ProcessProductLenient(product, response, brand_name) ==
    IF ~Truthy(product.url) \/ RaisesIndexError(product)
    THEN [kind |-> "skipped", records |-> <<>>]
    ELSE [kind |-> "emitted", records |-> <<BuildItem(product, response, brand_name)>>]

\* a mutation of ProcessProduct: an element without a link ends the loop like an error
ProcessProductStrict(product, response, brand_name) ==
    IF ~Truthy(product.url) \/ RaisesIndexError(product)
    THEN [kind |-> "raised", records |-> <<>>]
    ELSE [kind |-> "emitted", records |-> <<BuildItem(product, response, brand_name)>>]

(* One pass of the loop of lines 106-182: what happens for one product      *)
(* element ("raised": IndexError at line 154, "skipped": no link, no item,  *)
(* "emitted": one item appended and yielded).                               *)
ProcessProduct(product, response, brand_name) ==
    IF RaisesIndexError(product) THEN [kind |-> "raised", records |-> <<>>]
    ELSE IF ~Truthy(product.url) THEN [kind |-> "skipped", records |-> <<>>]
    ELSE [kind |-> "emitted", records |-> <<BuildItem(product, response, brand_name)>>]

RECURSIVE Yielded(_, _, _, _)
\* the items the loop yields for the elements k .. stop - 1, in order
Yielded(response, brand_name, k, stop) ==
    IF k >= stop THEN <<>>
    ELSE ProcessProduct(response.frags[k], response, brand_name).records
            \o Yielded(response, brand_name, k + 1, stop)

\* the index of the first element that raises, or the number of elements plus one
FirstRaise(response, brand_name) ==
    IF \A k \in 1..Len(response.frags) :
          ProcessProduct(response.frags[k], response, brand_name).kind # "raised"
    THEN Len(response.frags) + 1
    ELSE CHOOSE k \in 1..Len(response.frags) :
            /\ ProcessProduct(response.frags[k], response, brand_name).kind = "raised"
            /\ \A r \in 1..(k - 1) :
                  ProcessProduct(response.frags[r], response, brand_name).kind # "raised"

\* the loop that stops at element stop
LoopUpTo(response, brand_name, stop) ==
    [records |-> Yielded(response, brand_name, 1, stop),
     outcome |-> [k \in 1..Len(response.frags) |->
                    IF k <= stop
                    THEN ProcessProduct(response.frags[k], response, brand_name).kind
                    ELSE "unreached"],
     raised |-> stop <= Len(response.frags)]

(* The loop of lines 106-182. An exception ends the generator: the items    *)
(* yielded before it stay yielded, the elements after it are "unreached".   *)
ProcessProducts(response, brand_name) ==
    LoopUpTo(response, brand_name, FirstRaise(response, brand_name))

(* What the site can answer. *)

NoProductText ==
    [url |-> NoneStr, name |-> NoneStr, eyebrow |-> NoneStr, rating |-> NoneStr,
     image |-> NoneStr, discount_text |-> NoneStr, sale_text |-> NoneStr,
     strike_text |-> NoneStr, reg_text |-> NoneStr]

\* a product element without a product link
FragNoLink ==
    [NoProductText EXCEPT
        !.name = SomeStr(<<"T">>),
        !.image = SomeStr(<<"a.jpg">>),
        !.reg_text = SomeStr(<<"$", "9", "0">>)]

\* a product element whose link holds no "?ID="
FragNoId ==
    [NoProductText EXCEPT
        !.url = SomeStr(<<"/shop/product/x", "?", "CategoryID=", "2">>),
        !.name = SomeStr(<<"T">>)]

\* a product element with every field
FragFull ==
    [url |-> SomeStr(<<"/shop/product/x", "?ID=", "1", "&", "CategoryID=", "2">>),
     name |-> SomeStr(<<" ", "T", " ">>),
     eyebrow |-> SomeStr(<<"Best Seller">>),
     rating |-> SomeStr(<<"Rated ", "4", ".", "5", " stars with ", "1", "2", "0", " reviews">>),
     image |-> SomeStr(<<"a.jpg">>),
     discount_text |-> SomeStr(<<"Now">>),
     sale_text |-> SomeStr(<<"$", "9", "0">>),
     strike_text |-> SomeStr(<<"$", "1", ",", "2", "3", "4", ".", "5", "6">>),
     reg_text |-> NoneStr]

\* a product element with a link and a code and nothing else
FragBare ==
    [NoProductText EXCEPT !.url = SomeStr(<<"/shop/product/y", "?ID=", "0", "1">>)]

FragmentInputs == {FragNoLink, FragNoId, FragFull, FragBare}

NoSelectorHits == [i \in 1..NumSelectors |-> NoneStr]

SelectorInputs == {NoSelectorHits, [NoSelectorHits EXCEPT ![3] = SomeStr(<<"img.jpg">>)]}

SeqsUpTo(S, n) == UNION {[1..k -> S] : k \in 0..n}

\* the listing pages: the product elements and what each image selector finds
ResponseInputs ==
    {[frags |-> f, selectors |-> r] : f \in SeqsUpTo(FragmentInputs, MaxFrags),
                                      r \in SelectorInputs}

\* the brand links of the designer index
BrandInputs ==
    {[brand_name |-> "A", link |-> <<"/shop/", "buy/", "a", "?", "id=1">>],
     [brand_name |-> "B", link |-> <<"/shop/", "b">>]}

NoCallback ==
    [brand |-> "", page |-> 0, frags |-> <<>>, outcome |-> <<>>, records |-> <<>>,
     raised |-> FALSE, paginated |-> FALSE, followed |-> FALSE]

\* the scheduler takes a request unless its duplicate filter has seen the URL
Enqueue(reqs) == {r \in reqs : r.url \notin seen}

(* BloomingdalesSpider.parse: one request per brand link, without current_page *)
parse(brands) ==
    /\ phase = "crawling"
    /\ rootPending
    /\ rootPending' = FALSE
    /\ LET reqs == {[brand |-> b.brand_name, url |-> UrlJoin(b.link), meta |-> NoneNum] :
                        b \in brands}
       IN /\ pending' = pending \cup Enqueue(reqs)
          /\ seen' = seen \cup {r.url : r \in reqs}
    /\ UNCHANGED <<all_scraped_items, issued, last>>
    /\ UNCHANGED pipelineVars
    /\ UNCHANGED backfillVars
    /\ UNCHANGED call

\* lines 187-191: the request for the next page
NextRequest(req, next_page) ==
    [brand |-> req.brand,
     url |-> UrlJoin(SubPageindex(req.url, next_page)),
     meta |-> SomeNum(next_page)]

\* what a run of parse_designer_brand whose loop ended as done leaves behind
Callback(req, response, done, current_page, follow) ==
    /\ all_scraped_items' = all_scraped_items \o done.records
    /\ items' = items \o done.records
    /\ pending' = (pending \ {req}) \cup
          (IF follow THEN Enqueue({NextRequest(req, current_page + 1)}) ELSE {})
    /\ seen' = seen \cup (IF follow THEN {NextRequest(req, current_page + 1).url} ELSE {})
    /\ issued' = issued \cup
          (IF follow THEN {[brand |-> req.brand, from |-> current_page,
                            meta |-> SomeNum(current_page + 1),
                            url |-> NextRequest(req, current_page + 1).url,
                            from_url |-> req.url]}
                     ELSE {})
    /\ last' = [brand |-> req.brand, page |-> current_page, frags |-> response.frags,
                outcome |-> done.outcome, records |-> done.records,
                raised |-> done.raised,
                paginated |-> (Len(response.frags) > 0 /\ ~done.raised),
                followed |-> follow]

\* a mutation of Follows: the ceiling is tested with <= instead of <
FollowsInclusive(response, done, current_page) ==
    /\ Len(response.frags) > 0
    /\ ~done.raised
    /\ current_page <= MaxPage

\* a mutation of Follows: a page without products is paginated like any other
FollowsWhenEmpty(response, done, current_page) ==
    /\ ~done.raised
    /\ current_page < MaxPage

\* lines 98-100 and 184-193: a follow-up is yielded
Follows(response, done, current_page) ==
    /\ Len(response.frags) > 0      \* line 98: no products, return
    /\ ~done.raised                 \* an exception ended the generator
    /\ current_page < MaxPage       \* line 186

\* a run of parse_designer_brand whose loop ended as done
Paginate(req, response, done) ==
    /\ Len(items) + Len(done.records) <= MaxItems
    /\ Callback(req, response, done, CurrentPage(req.meta),
                Follows(response, done, CurrentPage(req.meta)))

(* BloomingdalesSpider.parse_designer_brand on the response to req; every   *)
(* yielded item goes through process_item.                                  *)
parse_designer_brand(req, response) ==
    /\ phase = "crawling"
    /\ req \in pending
    /\ Paginate(req, response, ProcessProducts(response, req.brand))
    /\ UNCHANGED <<rootPending, csvFile, xlsxFile, phase, startCsv, startXlsx, inRunTable>>
    /\ UNCHANGED backfillVars
    /\ UNCHANGED call

\* a mutation of fetch_failed: a failed download abandons every waiting request
fetch_failed_fatal(req) ==
    /\ phase = "crawling"
    /\ req \in pending
    /\ pending' = {}
    /\ UNCHANGED <<rootPending, seen, all_scraped_items, issued, last>>
    /\ UNCHANGED pipelineVars
    /\ UNCHANGED backfillVars
    /\ UNCHANGED call

(* The download of req fails for good: no callback runs (the requests carry *)
(* no errback).                                                             *)
fetch_failed(req) ==
    /\ phase = "crawling"
    /\ req \in pending
    /\ pending' = pending \ {req}
    /\ UNCHANGED <<rootPending, seen, all_scraped_items, issued, last>>
    /\ UNCHANGED pipelineVars
    /\ UNCHANGED backfillVars
    /\ UNCHANGED call

InitCrawl ==
    /\ rootPending = TRUE
    /\ pending = {}
    /\ seen = {}
    /\ all_scraped_items = <<>>
    /\ issued = {}
    /\ last = NoCallback

----------------------------------------------------------------------------
(* BloomingdalesImageScraper *)

\* the number of selectors parse tries on a product page
NumDetailSelectors == 9

\* df['imageurl'].isnull() | df['imageurl'].eq(''): the indexes of the rows without image
MissingImage(frame) == {i \in 1..Len(frame) : ~Truthy(frame[i].imageurl)}

RECURSIVE Truthies(_, _)
\* extract_images: every selector's result that is not empty, in selector order
Truthies(results, i) ==
    IF i > Len(results) THEN <<>>
    ELSE (IF Truthy(results[i]) THEN <<results[i].val>> ELSE <<>>)
            \o Truthies(results, i + 1)

RECURSIVE Join(_)
\* ', '.join(image_urls)
Join(image_urls) ==
    IF Len(image_urls) = 0 THEN <<>>
    ELSE IF Len(image_urls) = 1 THEN image_urls[1]
    ELSE image_urls[1] \o <<", ">> \o Join(Tail(image_urls))

\* line 109: ', '.join(image_urls) if image_urls else None
JoinedOrNone(image_urls) ==
    IF image_urls # <<>> THEN SomeStr(Join(image_urls)) ELSE NoneStr

\* a mutation of SetImage: the value is written into the imageurl of every row
SetImageOfAll(frame, index, value) ==
    [i \in 1..Len(frame) |-> [frame[i] EXCEPT !.imageurl = value]]

\* self.df.at[index, 'imageurl'] = value
SetImage(frame, index, value) == [frame EXCEPT ![index].imageurl = value]

\* a mutation of Copy2: nothing is copied
Copy2Skipped(file, backup) == backup

\* lines 31-34: if os.path.exists(file): shutil.copy2(file, backup); the backup after them
Copy2(file, backup) == IF file.exists THEN file ELSE backup

(* __init__, lines 24-50, for the object number passes + 1: the backup, the  *)
(* load of the Excel file and the selection of the rows to scrape. Without   *)
(* the Excel file self.df is an empty DataFrame and line 45 raises KeyError. *)
SpiderInit ==
    /\ passes' = passes + 1
    /\ backupCsv' = Copy2(csvFile, backupCsv)
    /\ backupXlsx' = Copy2(xlsxFile, backupXlsx)
    /\ self_df' = IF xlsxFile.exists THEN ReadExcel(xlsxFile) ELSE <<>>
    /\ products_to_scrape' =
          IF xlsxFile.exists THEN MissingImage(ReadExcel(xlsxFile)) ELSE {}
    /\ requests' = {}
    /\ errored' = {}
    /\ bpc' = IF xlsxFile.exists THEN "created" ELSE "init_failed"


(* check_missing_urls_and_retry, lines 146-153: another crawl is started.    *)
(* read_excel raises without the updated file, and process is a name of the  *)
(* script's __main__ block only: under "scrapy crawl" line 153 raises        *)
(* NameError. Both are caught at line 157.                                   *)
Retries(updated) ==
    /\ updated.exists
    /\ MissingImage(ReadExcel(updated)) # {}
    /\ launch = "script"

\* lines 160-168, or "scrapy crawl bloomingdales_image_scraper"
start_crawl(how) ==
    /\ launch = "none"
    /\ launch' = how
    /\ SpiderInit
    /\ UNCHANGED <<updatedCsv, updatedXlsx>>
    /\ UNCHANGED pipelineVars
    /\ UNCHANGED crawlVars
    /\ UNCHANGED call

\* BloomingdalesImageScraper.start_requests
start_requests ==
    /\ bpc = "created"
    /\ requests' = products_to_scrape
    /\ bpc' = "crawling"
    /\ UNCHANGED <<launch, passes, self_df, products_to_scrape, errored,
                   backupCsv, backupXlsx, updatedCsv, updatedXlsx>>
    /\ UNCHANGED pipelineVars
    /\ UNCHANGED crawlVars
    /\ UNCHANGED call

(* BloomingdalesImageScraper.parse for the row at index; results[i] is what  *)
(* selector i finds on the product page (the second extraction, after the    *)
(* sleep, reads the same response).                                          *)
parse_image(index, results) ==
    /\ bpc = "crawling"
    /\ index \in requests
    /\ requests' = requests \ {index}
    /\ self_df' = IF Len(self_df) > 0
             THEN SetImage(self_df, index, JoinedOrNone(Truthies(results, 1)))
             ELSE self_df
    /\ UNCHANGED <<launch, bpc, passes, products_to_scrape, errored,
                   backupCsv, backupXlsx, updatedCsv, updatedXlsx>>
    /\ UNCHANGED pipelineVars
    /\ UNCHANGED crawlVars
    /\ UNCHANGED call

\* a mutation of ErrorCleared: the failure is written into the row as a text
ErrorMarked(frame, index) ==
    IF Len(frame) > 0 THEN SetImage(frame, index, SomeStr(<<"error">>)) ELSE frame

\* handle_error, lines 80-81: the frame after the row's imageurl is set to None
ErrorCleared(frame, index) ==
    IF Len(frame) > 0 THEN SetImage(frame, index, NoneStr) ELSE frame

\* BloomingdalesImageScraper.handle_error for the row at index
handle_error(index) ==
    /\ bpc = "crawling"
    /\ index \in requests
    /\ requests' = requests \ {index}
    /\ self_df' = ErrorCleared(self_df, index)
    /\ errored' = errored \cup {index}
    /\ UNCHANGED <<launch, bpc, passes, products_to_scrape,
                   backupCsv, backupXlsx, updatedCsv, updatedXlsx>>
    /\ UNCHANGED pipelineVars
    /\ UNCHANGED crawlVars
    /\ UNCHANGED call

\* closed, lines 128-140: the updated files as they are after the writes
UpdatedAfterClose(updated, written) == IF Len(self_df) > 0 THEN written ELSE updated

\* a mutation of FilesAfterClosed: self.df is written over the files it was loaded from
FilesAfterClosedInPlace ==
    [csv |-> UpdatedAfterClose(csvFile, ToCsv(self_df)),
     xlsx |-> UpdatedAfterClose(xlsxFile, ToExcel(self_df)),
     updated_csv |-> updatedCsv,
     updated_xlsx |-> updatedXlsx]

(* closed, lines 130-134: the four files after the writes; updated_csv_path  *)
(* and updated_excel_path are the files under data/updated.                  *)
FilesAfterClosed ==
    [csv |-> csvFile,
     xlsx |-> xlsxFile,
     updated_csv |-> UpdatedAfterClose(updatedCsv, ToCsv(self_df)),
     updated_xlsx |-> UpdatedAfterClose(updatedXlsx, ToExcel(self_df))]

(* BloomingdalesImageScraper.closed, with check_missing_urls_and_retry: the  *)
(* pass is over (no request is waiting); the updated files are written; when *)
(* the updated Excel file still holds rows without image, process.crawl      *)
(* builds the next BloomingdalesImageScraper at once, which runs __init__.   *)
closed ==
    /\ bpc = "crawling"
    /\ requests = {}
    /\ csvFile' = FilesAfterClosed.csv
    /\ xlsxFile' = FilesAfterClosed.xlsx
    /\ updatedCsv' = FilesAfterClosed.updated_csv
    /\ updatedXlsx' = FilesAfterClosed.updated_xlsx
    /\ IF Retries(UpdatedAfterClose(updatedXlsx, ToExcel(self_df))) /\ passes < MaxPasses
       THEN SpiderInit
       ELSE /\ bpc' = "finished"
            /\ UNCHANGED <<passes, self_df, products_to_scrape, requests, errored,
                           backupCsv, backupXlsx>>
    /\ UNCHANGED launch
    /\ UNCHANGED <<items, phase, startCsv, startXlsx, inRunTable>>
    /\ UNCHANGED crawlVars
    /\ UNCHANGED call

InitBackfill ==
    /\ launch = "none"
    /\ bpc = "none"
    /\ passes = 0
    /\ self_df = <<>>
    /\ products_to_scrape = {}
    /\ requests = {}
    /\ errored = {}
    /\ backupCsv = NoFile
    /\ backupXlsx = NoFile
    /\ updatedCsv = NoFile
    /\ updatedXlsx = NoFile

(* What the site can answer for a product page. *)
NoDetailHits == [i \in 1..NumDetailSelectors |-> NoneStr]

DetailInputs ==
    {NoDetailHits,
     [NoDetailHits EXCEPT ![3] = SomeStr(<<"b.jpg">>)],
     [NoDetailHits EXCEPT ![1] = SomeStr(<<"b.jpg">>), ![5] = SomeStr(<<"c.jpg">>)]}

(* The datasets the image scraper can find: what a run of the listing       *)
(* spider persists for up to MaxRows items with and without image.           *)
PersistedItemInputs ==
    {[MkItem(c, 9000) EXCEPT !.imageurl = i] :
        c \in CodeTexts, i \in {NoneStr, SomeStr(<<"a.jpg">>)}}

PersistedInputs ==
    {SpiderClosedDf(ToCsv(CloseSpiderDf(its, NoFile, NoFile))) :
        its \in SeqsUpTo(PersistedItemInputs, MaxRows)}

\* the image scraper is started on a dataset the listing spider left, or on none
InitPersisted ==
    /\ InitCrawl
    /\ InitBackfill
    /\ call = NoCall
    /\ items = <<>>
    /\ phase = "closed"
    /\ inRunTable = <<>>
    /\ \/ csvFile = NoFile /\ xlsxFile = NoFile
       \/ \E d \in PersistedInputs : csvFile = ToCsv(d) /\ xlsxFile = ToExcel(d)
    /\ startCsv = csvFile
    /\ startXlsx = xlsxFile

NextBackfill ==
    \/ \E how \in {"script", "scrapy"} : start_crawl(how)
    \/ start_requests
    \/ \E index \in requests, results \in DetailInputs : parse_image(index, results)
    \/ \E index \in requests : handle_error(index)
    \/ closed


----------------------------------------------------------------------------
(* The normalizers, called on their own. *)

\* the most tokens of a generated price text
MaxPriceLen == 3

\* the most selectors of extract_image_url that match on one page
MaxHits == 2

PriceTokens == {"$", "1", "0", ",", ".", "-", " ", "x"}

\* what the price selectors of get_price can return
PriceInputs ==
    {NoneStr}
        \cup {SomeStr(t) : t \in SeqsUpTo(PriceTokens, MaxPriceLen)}
        \cup {SomeStr(<<"$", "1", ",", "2", "3", "4", ".", "5", "6">>),
              SomeStr(<<"$", "1", "0", " ", "-", " ", "$", "2", "0">>),
              SomeStr(<<" ", "$", "9", "0", ".", "5", " ">>),
              SomeStr(<<"N", "o", "w", " ", "$", "9", "0">>)}

\* what one image selector can return: nothing, an empty attribute, a URL
ImageValues == {SomeStr(<<>>), SomeStr(<<"a.jpg">>), SomeStr(<<"b.jpg">>)}

\* what the selectors of extract_image_url return on a page: at most MaxHits of them match
SelectorResults ==
    UNION {{[i \in 1..NumSelectors |-> IF i \in H THEN f[i] ELSE NoneStr] :
                f \in [H -> ImageValues]} :
           H \in {h \in SUBSET (1..NumSelectors) : Cardinality(h) <= MaxHits}}

RECURSIVE Tried(_, _)
\* the number of passes of the loop of lines 216-223 over results, from selector i on
Tried(results, i) ==
    IF i > Len(results) THEN Len(results)
    ELSE IF Truthy(results[i]) THEN i     \* break
    ELSE Tried(results, i + 1)

\* the number of selectors of extract_image_url that were run for a product element
SelectorsTried(product, response) ==
    IF Truthy(product.image) THEN 0 ELSE Tried(response.selectors, 1)

\* self.convert_price_to_float(price_str)
call_convert_price_to_float(price_str) ==
    /\ call' = [NoCall EXCEPT !.fn = "convert_price_to_float",
                              !.price_str = price_str,
                              !.price = convert_price_to_float(price_str)]
    /\ UNCHANGED pipelineVars
    /\ UNCHANGED crawlVars
    /\ UNCHANGED backfillVars

(* lines 117 and 135-136 for one product element: image is what the listing *)
(* selector of line 117 returns, selectors what the selectors of            *)
(* extract_image_url return.                                                *)
call_extract_image_url(image, selectors) ==
    /\ call' = [NoCall EXCEPT
                  !.fn = "extract_image_url",
                  !.image = image,
                  !.selectors = selectors,
                  !.image_url = ListingImage([image |-> image], [selectors |-> selectors]),
                  !.tried = SelectorsTried([image |-> image], [selectors |-> selectors])]
    /\ UNCHANGED pipelineVars
    /\ UNCHANGED crawlVars
    /\ UNCHANGED backfillVars

NextNormalizers ==
    \/ \E price_str \in PriceInputs : call_convert_price_to_float(price_str)
    \/ \E image \in {NoneStr} \cup ImageValues, selectors \in SelectorResults :
          call_extract_image_url(image, selectors)

Init == InitPipeline /\ InitCrawl /\ InitBackfill /\ call = NoCall

NextCrawl ==
    \/ \E brands \in SUBSET BrandInputs : parse(brands)
    \/ \E req \in pending, response \in ResponseInputs : parse_designer_brand(req, response)
    \/ \E req \in pending : fetch_failed(req)

\* a designer index with two brands whose listings both have further pages
SiblingInputs ==
    {[brand_name |-> "A", link |-> <<"/shop/", "buy/", "a", "?", "id=1">>],
     [brand_name |-> "C", link |-> <<"/shop/", "buy/", "c", "?", "id=3">>]}

\* their listing pages: exhausted, with a product, with a link that raises, without link
SiblingResponses ==
    {[frags |-> f, selectors |-> NoSelectorHits] :
        f \in {<<>>, <<FragFull>>, <<FragNoId>>, <<FragNoLink>>}}

\* the crawl of two sibling branches
NextSiblings ==
    \/ parse(SiblingInputs)
    \/ \E req \in pending, response \in SiblingResponses : parse_designer_brand(req, response)
    \/ \E req \in pending : fetch_failed(req)

\* a mutation of close_when_idle: the pipeline is closed while requests still wait
close_at_any_time == close_spider

(* The engine closes the spider when it is idle: the start request was       *)
(* answered and no request waits. It then calls close_spider of the         *)
(* pipeline and sends spider_closed.                                        *)
close_when_idle ==
    /\ ~rootPending
    /\ pending = {}
    /\ close_spider

\* one whole run of the listing spider, from the start request to the close hooks
NextRun ==
    \/ \E brands \in SUBSET BrandInputs : parse(brands)
    \/ \E req \in pending, response \in ResponseInputs : parse_designer_brand(req, response)
    \/ \E req \in pending : fetch_failed(req)
    \/ close_when_idle
    \/ spider_closed

SpecPipeline == Init /\ [][NextPipeline]_vars

(* Every download ends, with a response or for good with a failure, and the *)
(* engine goes on while it has something to do.                             *)
SpecRun == Init /\ [][NextRun]_vars /\ WF_vars(NextRun)

SpecSiblings == Init /\ [][NextSiblings]_vars

SpecCrawl == Init /\ [][NextCrawl]_vars

SpecBackfill == InitPersisted /\ [][NextBackfill]_vars

SpecWriteFailure == Init /\ [][NextWriteFailure]_vars

SpecNormalizers == Init /\ [][NextNormalizers]_vars

----------------------------------------------------------------------------
(* The persisted dataset, as a reader of the files sees it. *)

\* the product codes of a file's rows, in row order, as text
CsvCodes(file) == [i \in 1..Len(file.rows) |-> file.rows[i].product_code]
XlsxCodes(file) == [i \in 1..Len(file.rows) |-> file.rows[i].product_code.v]

Distinct(s) == \A i, j \in 1..Len(s) : i # j => s[i] # s[j]

Range(s) == {s[i] : i \in 1..Len(s)}

\* the rows of a file as a reader sees them: the code as text and the other fields
CsvView(file) == file.rows
XlsxView(file) ==
    [i \in 1..Len(file.rows) |->
        [file.rows[i] EXCEPT !.product_code = @.v]]

ItemCodes(its) == {its[i].product_code : i \in 1..Len(its)}

(* C1: after close_spider and spider_closed have finished, the rows of the  *)
(* persisted CSV and of the persisted Excel file have pairwise distinct     *)
(* product_code values, in every run of every sequence of runs.             *)
C1_DistinctProductCodes ==
    phase = "closed" =>
        /\ Distinct(CsvCodes(csvFile))
        /\ Distinct(XlsxCodes(xlsxFile))

\* C1's case: a run ended whose items repeat a code and collide with the existing file
C1_Witness ==
    /\ phase = "closed"
    /\ Len(startCsv.rows) > 0
    /\ Len(items) = 2
    /\ items[1].product_code = items[2].product_code
    /\ items[1].product_code \in Range(CsvCodes(startCsv))

(* C2: merge precedence. When the existing dataset holds a row with         *)
(* product_code X and the run's items hold one too, the dataset written at  *)
(* the end of the run holds exactly one row for X and its full_price is     *)
(* that of a new row, not that of the existing row.                         *)
C2_NewRowWins ==
    phase = "closed" =>
        \A X \in Range(CsvCodes(startCsv)) \cap ItemCodes(items) :
            LET hits == {i \in 1..Len(csvFile.rows) : csvFile.rows[i].product_code = X}
                fresh == {items[i].full_price :
                            i \in {k \in 1..Len(items) : items[k].product_code = X}}
            IN /\ Cardinality(hits) = 1
               /\ \A i \in hits : csvFile.rows[i].full_price \in fresh

(* C3: a run in which process_item is never called leaves the persisted     *)
(* dataset unchanged: the same rows with the same values in the same order, *)
(* and no row more.                                                         *)
C3_EmptyRunKeepsDataset ==
    (phase = "closed" /\ items = <<>>) =>
        /\ CsvView(csvFile) = CsvView(startCsv)
        /\ XlsxView(xlsxFile) = XlsxView(startXlsx)

\* C3's case: a run without items ended on a dataset that held rows
C3_Witness ==
    /\ phase = "closed"
    /\ items = <<>>
    /\ Len(startCsv.rows) >= 2

(* C4: in-run deduplication keeps the last-seen record: of two items with   *)
(* the same product_code the in-run table of close_spider holds the one     *)
(* appended later.                                                          *)
C4_LastSeenKept ==
    phase = "pipeline_closed" =>
        \A i \in 1..Len(items) :
            (\A j \in (i + 1)..Len(items) : items[j].product_code # items[i].product_code)
                => DataFrame(items)[i] \in Range(inRunTable)

(* C5: merge idempotence. Running the end-of-run hooks once more with the   *)
(* same items on what the run wrote gives a dataset with the same number of *)
(* rows and the same set of product codes.                                  *)
C5_MergeIdempotent ==
    phase = "closed" =>
        LET again == ToCsv(SpiderClosedDf(ToCsv(CloseSpiderDf(items, csvFile, xlsxFile))))
        IN /\ Len(again.rows) = Len(csvFile.rows)
           /\ Range(CsvCodes(again)) = Range(CsvCodes(csvFile))

\* C5's case: a run with items ended on a dataset that already held rows
C5_Witness ==
    /\ phase = "closed"
    /\ Len(items) > 0
    /\ Len(startCsv.rows) > 0
    /\ Len(csvFile.rows) > Len(startCsv.rows)

----------------------------------------------------------------------------
(* The listing spider. *)

C7_AtMostTwoPasses == passes <= 2

(* C8: a product element without a product link gives no record and no      *)
(* append (the run of the callback yields exactly one record per element     *)
(* that came out "emitted", and such an element never does), and the loop    *)
(* goes on after it: to the next element, or after the last one to the       *)
(* pagination step.                                                          *)
C8_NoLinkNoRecord ==
    /\ Len(last.records) =
          Cardinality({k \in 1..Len(last.frags) : last.outcome[k] = "emitted"})
    /\ \A k \in 1..Len(last.frags) :
          ~Truthy(last.frags[k].url) =>
              /\ last.outcome[k] \in {"skipped", "unreached"}
              /\ last.outcome[k] = "skipped" =>
                    /\ k < Len(last.frags) => last.outcome[k + 1] # "unreached"
                    /\ k = Len(last.frags) => last.paginated

\* C8's case: a page whose first element has no link and whose second has one
C8_Witness ==
    /\ Len(last.frags) = 2
    /\ ~Truthy(last.frags[1].url)
    /\ last.outcome = <<"skipped", "emitted">>
    /\ Len(last.records) = 1
    /\ last.paginated

(* C9: every product element of a page that has a product link and a        *)
(* product_code gives exactly one record, whichever optional fields are      *)
(* absent, and the absent fields are None in the record.                     *)
C9_OneRecordPerProduct ==
    /\ \A k \in 1..Len(last.frags) :
          (Truthy(last.frags[k].url) /\ ~RaisesIndexError(last.frags[k]))
              => last.outcome[k] = "emitted"
    /\ Len(last.records) =
          Cardinality({k \in 1..Len(last.frags) :
              Truthy(last.frags[k].url) /\ ~RaisesIndexError(last.frags[k])})
    /\ \A i \in 1..Len(last.records) :
          \E k \in 1..Len(last.frags) :
              /\ last.outcome[k] = "emitted"
              /\ last.records[i].itemurl = UrlJoin(last.frags[k].url.val)
              /\ ~Truthy(last.frags[k].name) => last.records[i].title = NoneStr
              /\ ~Truthy(last.frags[k].rating) =>
                    /\ last.records[i].category1_code = NoneNum
                    /\ last.records[i].category2_code = NoneNum
              /\ (~Truthy(last.frags[k].sale_text) /\ ~Truthy(last.frags[k].reg_text)
                   /\ ~Truthy(last.frags[k].strike_text)) =>
                    /\ last.records[i].full_price = NoneNum
                    /\ last.records[i].price = NoneNum

(* C10: product-code extraction is total: no product link, with or without  *)
(* "?ID=", makes parse_designer_brand raise, so every element of the page is *)
(* processed and the pagination step is reached.                             *)
C10_ExtractionTotal ==
    /\ ~last.raised
    /\ \A k \in 1..Len(last.frags) : last.outcome[k] # "unreached"
    /\ Len(last.frags) > 0 => last.paginated

(* C11: a listing page without product elements ends its branch: the run of *)
(* parse_designer_brand on it yields no record and no follow-up, whatever   *)
(* its page index, and no request of that brand is left waiting or was ever *)
(* issued for a later page.                                                 *)
C11_EmptyPageEndsBranch ==
    (last.page > 0 /\ last.frags = <<>>) =>
        /\ last.records = <<>>
        /\ ~last.followed
        /\ ~last.paginated
        /\ \A r \in pending : r.brand = last.brand => CurrentPage(r.meta) <= last.page
        /\ \A r \in issued : r.brand = last.brand => r.meta.val <= last.page

\* C11's case: page 2 of a brand, below the ceiling, held no product element
C11_Witness ==
    /\ last.page = 2
    /\ last.frags = <<>>
    /\ \E r \in issued : r.brand = last.brand /\ r.meta.val = 2

(* C12: all-or-nothing writes. After close_spider, finished or failed, each *)
(* file of the dataset holds either the complete dataset of the run or the  *)
(* complete dataset it held when the run started, never a part of one; and  *)
(* when the run is over no item of the run is missing from the dataset.     *)
C12_AllOrNothingWrites ==
    /\ phase = "pipeline_closed" =>
          /\ csvFile \in {startCsv, ToCsv(CloseSpiderDf(items, startCsv, startXlsx))}
          /\ xlsxFile \in {startXlsx, ToExcel(CloseSpiderDf(items, startCsv, startXlsx))}
    /\ phase = "closed" =>
          \A i \in 1..Len(items) :
              \E j \in 1..Len(csvFile.rows) :
                  IntText(csvFile.rows[j].product_code) = IntText(items[i].product_code)

(* C13: a failed fetch clears the row's image. A step of handle_error       *)
(* changes no other row and no other field; from then on the row's imageurl *)
(* in self.df is absent, and the updated files written when the pass closes *)
(* hold the row without imageurl.                                           *)
C13_FailedFetchClearsImage ==
    [][/\ \A i \in errored' : ~self_df'[i].imageurl.some
       /\ errored' # errored /\ errored' # {} =>
             /\ Len(self_df') = Len(self_df)
             /\ \A j \in 1..Len(self_df) :
                   \/ self_df'[j] = self_df[j]
                   \/ /\ j \in errored' \ errored
                      /\ self_df'[j] = [self_df[j] EXCEPT !.imageurl = NoneStr]
       /\ (bpc = "crawling" /\ bpc' # "crawling") =>
             \A i \in errored :
                /\ ~updatedXlsx'.rows[i].imageurl.some
                /\ ~updatedCsv'.rows[i].imageurl.some]_vars

\* C13's case: a pass closed in which a fetch failed, on a dataset with another row
C13_Witness ==
    /\ bpc = "finished"
    /\ errored # {}
    /\ Len(updatedXlsx.rows) = 2
    /\ \E i \in errored : ~updatedXlsx.rows[i].imageurl.some
    /\ \E j \in 1..Len(updatedXlsx.rows) : updatedXlsx.rows[j].imageurl.some

(* C14: the image-backfill pass never writes the files it reads. No step of *)
(* __init__, parse, handle_error, closed or a retried pass changes          *)
(* data/bloomingdales_products.csv or .xlsx, and what closed writes, it     *)
(* writes to the files under data/updated.                                  *)
C14_PersistedFilesUntouched ==
    [][/\ csvFile' = csvFile
       /\ xlsxFile' = xlsxFile
       /\ (bpc = "crawling" /\ bpc' # "crawling" /\ Len(self_df) > 0) =>
             /\ updatedCsv' = ToCsv(self_df)
             /\ updatedXlsx' = ToExcel(self_df)]_vars

\* C14's case: a pass found an image and closed: the updated file differs from the read one
C14_Witness ==
    /\ bpc = "finished"
    /\ updatedXlsx.exists
    /\ xlsxFile.exists
    /\ updatedXlsx # xlsxFile
    /\ xlsxFile = startXlsx
    /\ csvFile = startCsv

(* C15: the backup comes first. From the moment a pass has its dataset      *)
(* loaded (before its requests are issued and before it writes anything)    *)
(* to its end, the backup files equal the persisted files as they were when *)
(* the pass started; right after __init__ no request is issued yet.         *)
C15_BackupBeforePass ==
    /\ bpc \in {"created", "crawling", "finished"} =>
          /\ backupCsv = startCsv
          /\ backupXlsx = startXlsx
          /\ self_df = ReadExcel(backupXlsx) \/ bpc # "created"
    /\ bpc = "created" => requests = {} /\ errored = {}
    /\ passes = 1 /\ bpc = "created" => ~updatedCsv.exists /\ ~updatedXlsx.exists

\* C15's case: a retried pass ended; its output differs from the backup
C15_Witness ==
    /\ bpc = "finished"
    /\ passes >= 2
    /\ backupXlsx.exists
    /\ updatedXlsx.exists
    /\ updatedXlsx # backupXlsx

----------------------------------------------------------------------------
(* The normalizers. *)

\* the chain of line 117 and of extract_image_url, in the order the rules are tried
ImageChain == <<call.image>> \o call.selectors

\* the rules of the chain that give a non-empty result
ImageHits == {i \in 1..Len(ImageChain) : Truthy(ImageChain[i])}

(* C17: listing-page image extraction is first-success-wins. The result is  *)
(* the match of the first rule of the chain (the listing rule, then the     *)
(* selectors of extract_image_url in list order) that gives a non-empty     *)
(* result, no later selector is run, and when no rule gives a result the    *)
(* image is absent: None when every rule gave None, never a URL.            *)
C17_FirstSuccessWins ==
    call.fn = "extract_image_url" =>
        /\ \A i \in ImageHits :
              (\A j \in ImageHits : i <= j) =>
                  /\ call.image_url = ImageChain[i]
                  /\ call.tried = i - 1
        /\ ImageHits = {} =>
              /\ ~Truthy(call.image_url)
              /\ call.tried = NumSelectors
        /\ (\A i \in 1..Len(ImageChain) : ImageChain[i] = NoneStr) =>
              call.image_url = NoneStr

\* C17's case: the listing rule gives nothing, selector 3 and a later selector match
C17_Witness ==
    /\ call.fn = "extract_image_url"
    /\ ~Truthy(call.image)
    /\ ImageHits = {4, 6}
    /\ call.selectors[3] # call.selectors[5]
    /\ call.image_url = call.selectors[3]
    /\ call.tried = 3

\* the text of the call before its first "-" (all of it when it holds none)
PriceHead ==
    IF IndexOf(call.price_str.val, "-") = 0 THEN call.price_str.val
    ELSE SubSeq(call.price_str.val, 1, IndexOf(call.price_str.val, "-") - 1)

(* C18: convert_price_to_float is total. Every call returns (the call       *)
(* record holds its result, a number or None): None for None and for "",    *)
(* the number for a single price ("$1,234.56" is 1234.56, digits with or    *)
(* without "$" are their value), the lower bound for a range ("$10 - $20"   *)
(* is 10.0), and None for text that is no number (any text with a letter    *)
(* before the "-"); no result is negative. Numbers are in hundredths.       *)
C18_PriceConversionTotal ==
    call.fn = "convert_price_to_float" =>
        /\ ~Truthy(call.price_str) => call.price = NoneNum
        /\ call.price_str = SomeStr(<<"$", "1", ",", "2", "3", "4", ".", "5", "6">>)
              => call.price = SomeNum(123456)
        /\ call.price_str = SomeStr(<<"$", "1", "0", " ", "-", " ", "$", "2", "0">>)
              => call.price = SomeNum(1000)
        /\ call.price_str = SomeStr(<<" ", "$", "9", "0", ".", "5", " ">>)
              => call.price = SomeNum(9050)
        /\ (Truthy(call.price_str) /\ AllDigits(Remove(PriceHead, "$"))
                /\ Remove(PriceHead, "$") # <<>>)
              => call.price = SomeNum(NatOf(Remove(PriceHead, "$")) * 100)
        /\ (Truthy(call.price_str) /\ \E i \in 1..Len(PriceHead) : PriceHead[i] \notin
                                         Digits \cup {"$", ",", ".", " "})
              => call.price = NoneNum
        /\ call.price.some => call.price.val >= 0

\* C18's case: the range text "$10 - $20" was converted to its lower bound
C18_Witness ==
    /\ call.fn = "convert_price_to_float"
    /\ call.price_str = SomeStr(<<"$", "1", "0", " ", "-", " ", "$", "2", "0">>)
    /\ call.price = SomeNum(1000)

(* C19: branches are independent. A step on a request of one brand (its     *)
(* callback, whatever the page holds, or the failure of its download)       *)
(* takes that one request from the waiting ones and adds or issues requests *)
(* of the same brand only, so the waiting requests of the siblings and      *)
(* their page indexes stay as they are; the items emitted before stay, in   *)
(* order; and the duplicate filter drops a follow-up only for the URL of    *)
(* the page that yielded it, never for a URL a sibling made it see.         *)
C19_BranchesIndependent ==
    [][(~rootPending /\ pending' # pending) =>
          /\ Cardinality(pending \ pending') = 1
          /\ \A req \in pending \ pending' :
                /\ \A r \in pending' \ pending : r.brand = req.brand
                /\ \A r \in issued' \ issued :
                      /\ r.brand = req.brand
                      /\ r.from = CurrentPage(req.meta)
                      /\ r.url \in seen => r.url = req.url
                      /\ r.url \notin seen => \E q \in pending' : q.url = r.url
                /\ \A b \in {"A", "B", "C"} \ {req.brand} :
                      {r \in pending' : r.brand = b} = {r \in pending : r.brand = b}
          /\ Len(items') >= Len(items)
          /\ SubSeq(items', 1, Len(items)) = items]_vars

(* C19's case: the branch of A ended on its page 2 (no page 3 was issued    *)
(* and nothing of A waits) while C went on to a later page and emitted.     *)
C19_Witness ==
    /\ last.brand = "C"
    /\ last.page >= 2
    /\ last.records # <<>>
    /\ \E r \in issued : r.brand = "A" /\ r.meta.val = 2
    /\ \A r \in issued : r.brand = "A" => r.meta.val <= 2
    /\ \A r \in pending : r.brand # "A"

\* two rows that differ in imageurl at most
SameButImage(a, b) == [a EXCEPT !.imageurl = NoneStr] = [b EXCEPT !.imageurl = NoneStr]

\* rows is rows0 but for the imageurl of rows that had none
OnlyMissingImagesChanged(rows, rows0) ==
    /\ Len(rows) = Len(rows0)
    /\ \A i \in 1..Len(rows0) :
          /\ SameButImage(rows[i], rows0[i])
          /\ Truthy(rows0[i].imageurl) => rows[i].imageurl = rows0[i].imageurl

(* C20: a backfill pass changes only the imageurl of the rows that had no   *)
(* image when it started. At every step of a pass self.df has the rows of   *)
(* the persisted Excel file, in number, order and every field but the       *)
(* imageurl of those rows; and so have the updated Excel and CSV files that *)
(* closed writes, against the persisted file of their format.               *)
C20_OnlyMissingImagesChange ==
    [][/\ bpc' \in {"created", "crawling", "finished"} =>
             OnlyMissingImagesChanged(self_df', xlsxFile.rows)
       /\ (bpc = "crawling" /\ bpc' # "crawling" /\ Len(self_df) > 0) =>
             /\ OnlyMissingImagesChanged(updatedXlsx'.rows, xlsxFile.rows)
             /\ OnlyMissingImagesChanged(updatedCsv'.rows, csvFile.rows)]_vars

\* C20's case: of two rows one had an image and kept it, the other got one
C20_Witness ==
    /\ bpc = "finished"
    /\ Len(xlsxFile.rows) = 2
    /\ updatedXlsx.exists
    /\ \E i, j \in 1..2 :
          /\ Truthy(xlsxFile.rows[i].imageurl)
          /\ updatedXlsx.rows[i] = xlsxFile.rows[i]
          /\ ~Truthy(xlsxFile.rows[j].imageurl)
          /\ Truthy(updatedXlsx.rows[j].imageurl)
          /\ xlsxFile.rows[j].product_code = updatedXlsx.rows[j].product_code

RECURSIVE WithoutPageindex(_)
\* url without its /Pageindex/<n> segments
WithoutPageindex(url) ==
    IF url = <<>> THEN <<>>
    ELSE IF url[1] = "/Pageindex/" THEN WithoutPageindex(SubSeq(url, 3, Len(url)))
    ELSE <<url[1]>> \o WithoutPageindex(Tail(url))

(* C21: the URL requested for page n of a brand is the brand's first-page   *)
(* URL with exactly one page-index segment, /Pageindex/n: the rewrite of    *)
(* the URL of page n - 1 replaces the page index, and the URL requested     *)
(* differs from the URL of the page that was just processed.                *)
C21_PageIndexReplaced ==
    \A r \in issued :
        /\ r.url # r.from_url
        /\ Cardinality(At(r.url, "/Pageindex/")) = 1
        /\ \A i \in At(r.url, "/Pageindex/") : r.url[i + 1] = ToString(r.meta.val)
        /\ \E b \in BrandInputs :
              b.brand_name = r.brand /\ WithoutPageindex(r.url) = UrlJoin(b.link)

(* C22: every branch reaches Done. When every download ends, the crawl      *)
(* comes to have no waiting request and the run is closed for good; no      *)
(* brand is ever asked for a page beyond 7; and the finalize step           *)
(* (close_spider, then spider_closed) runs once, when nothing waits.        *)
C22_EveryBranchDone ==
    /\ <>[](phase = "closed" /\ pending = {} /\ ~rootPending)
    /\ [](\A r \in pending \cup issued : CurrentPage(r.meta) <= MaxPage)
    /\ [][phase' # phase =>
             \/ /\ phase = "crawling"
                /\ phase' = "pipeline_closed"
                /\ pending = {}
                /\ ~rootPending
             \/ /\ phase = "pipeline_closed"
                /\ phase' = "closed"]_vars

\* C22's case: a run is closed in which a brand was followed to page 7 and items were emitted
C22_Witness ==
    /\ phase = "closed"
    /\ pending = {}
    /\ csvFile.exists
    /\ items # <<>>
    /\ \E r \in issued : r.meta.val = MaxPage

(* C23: no record is lost. After a run, in whatever order its items reached *)
(* the pipeline, the product_codes of the persisted CSV and of the          *)
(* persisted Excel file are exactly the product_codes the dataset held      *)
(* when the run started together with those of the run's items.             *)
C23_NoRecordLost ==
    phase = "closed" =>
        /\ Range(CsvCodes(csvFile)) = Range(CsvCodes(startCsv)) \cup ItemCodes(items)
        /\ Range(XlsxCodes(xlsxFile)) = Range(XlsxCodes(startXlsx)) \cup ItemCodes(items)

====
